---- MODULE Spec2Model ----
(***************************************************************************)
(* A model of the image worker (src/src/worker.ts, src/src/utils.ts): the  *)
(* key-value store with its two blobs (folder snapshot, page cache), the   *)
(* upstream asset provider, and the handlers of GET / and GET /dev, cut    *)
(* into steps at their await points.                                       *)
(***************************************************************************)
EXTENDS Integers, Sequences, FiniteSets, TLC

(***************************************************************************)
(* Program constants (worker.ts:11-14).                                    *)
(***************************************************************************)
MOBILE_SIZE == 700
BASELINE_SIZE == 900
LARGE_SIZE == 1400
ITEMS_PER_PAGE == 40

(***************************************************************************)
(* Bounds of the model.                                                    *)
(***************************************************************************)
\* The longest upstream listing has 2 * ITEMS_PER_PAGE + MaxExtra resources.
MaxExtra == 5
\* The page query parameter takes the values -1 .. MaxPage, or is absent.
MaxPage == 4

MaxAsset == 2 * ITEMS_PER_PAGE + MaxExtra
Assets == 1 .. MaxAsset

(***************************************************************************)
(* Strings the code takes apart are sequences of one-character strings;    *)
(* Join turns one into a string once it is built.                          *)
(***************************************************************************)
RECURSIVE Join(_)
Join(cs) == IF cs = <<>> THEN "" ELSE Head(cs) \o Join(Tail(cs))

DecDigits == <<"0", "1", "2", "3", "4", "5", "6", "7", "8", "9">>
HexDigits == <<"0", "1", "2", "3", "4", "5", "6", "7", "8", "9",
               "a", "b", "c", "d", "e", "f">>
Upper == <<"A", "B", "C", "D", "E", "F", "G", "H", "I", "J", "K", "L", "M",
           "N", "O", "P", "Q", "R", "S", "T", "U", "V", "W", "X", "Y", "Z">>
Lower == <<"a", "b", "c", "d", "e", "f", "g", "h", "i", "j", "k", "l", "m",
           "n", "o", "p", "q", "r", "s", "t", "u", "v", "w", "x", "y", "z">>

RECURSIVE DecChars(_)
DecChars(n) ==
    IF n < 10 THEN <<DecDigits[n + 1]>>
    ELSE Append(DecChars(n \div 10), DecDigits[(n % 10) + 1])

\* String.prototype.toLowerCase, one character at a time.
LowerChar(c) ==
    IF \E i \in 1 .. Len(Upper) : Upper[i] = c
    THEN Lower[CHOOSE i \in 1 .. Len(Upper) : Upper[i] = c]
    ELSE c
ToLowerCase(cs) == [i \in 1 .. Len(cs) |-> LowerChar(cs[i])]

\* String.prototype.substring(0, n) / slice(from, to) on character sequences
\* (0-based, end exclusive, clamped to the string).
Min(a, b) == IF a < b THEN a ELSE b
Max(a, b) == IF a > b THEN a ELSE b
Slice(cs, from, to) == SubSeq(cs, Min(from, Len(cs)) + 1, Min(to, Len(cs)))

(***************************************************************************)
(* utils.ts: invertColor.  NaN (a failed parseInt) is the value -1; every  *)
(* comparison with it is false.                                            *)
(***************************************************************************)
NaN == 0 - 1
IsHexChar(c) == \E i \in 1 .. Len(HexDigits) : HexDigits[i] = LowerChar(c)
HexVal(c) == (CHOOSE i \in 1 .. Len(HexDigits) : HexDigits[i] = LowerChar(c)) - 1

\* Number.parseInt(s, 16) of a string of at most two characters: the longest
\* prefix of hex digits, NaN when there is none.
ParseInt16(cs) ==
    IF Len(cs) = 0 \/ ~IsHexChar(cs[1]) THEN NaN
    ELSE IF Len(cs) = 1 \/ ~IsHexChar(cs[2]) THEN HexVal(cs[1])
    ELSE 16 * HexVal(cs[1]) + HexVal(cs[2])

\* r * 0.299 + g * 0.587 + b * 0.114 > 186 in IEEE doubles.  The sum in
\* thousandths decides it, except for (170, 226, 22), whose exact sum is 186
\* and whose double sum is 186.00000000000003.
LuminanceAbove186(r, g, b) ==
    \/ 299 * r + 587 * g + 114 * b > 186000
    \/ (r = 170 /\ g = 226 /\ b = 22)

invertColor(hex) ==
    LET h1 == IF Len(hex) > 0 /\ hex[1] = "#" THEN Tail(hex) ELSE hex
        h2 == IF Len(h1) = 3
              THEN <<h1[1], h1[1], h1[2], h1[2], h1[3], h1[3]>>
              ELSE h1
    IN  IF Len(h2) # 6 THEN FALSE
        ELSE LET r == ParseInt16(Slice(h2, 0, 2))
                 g == ParseInt16(Slice(h2, 2, 4))
                 b == ParseInt16(Slice(h2, 4, 6))
             IN  IF r = NaN \/ g = NaN \/ b = NaN THEN FALSE
                 ELSE LuminanceAbove186(r, g, b)

(***************************************************************************)
(* utils.ts: transformCloudinaryUrl.  A URL is the record of its path      *)
(* segments and of its _a query parameter (<<>> when it has none); the     *)
(* result is the string the code builds.  A size of 0 is the falsy size.   *)
(***************************************************************************)
\* fileName.replace(/\.[^/.]+$/, '.avif'): the last dot and what follows it,
\* when something follows it.
ReplaceExtension(name) ==
    LET dots == {i \in 1 .. Len(name) : name[i] = "."}
    IN  IF dots = {} THEN name
        ELSE LET last == CHOOSE i \in dots : \A j \in dots : j <= i
             IN  IF last = Len(name) THEN name
                 ELSE SubSeq(name, 1, last - 1) \o <<".", "a", "v", "i", "f">>

transformCloudinaryUrl(originalUrl, size) ==
    LET fileName == IF originalUrl.path = <<>> THEN <<>>
                    ELSE originalUrl.path[Len(originalUrl.path)]
        aParam == originalUrl.a
        pa == IF aParam # <<>> /\ aParam[1] # "" THEN <<"_a=" \o aParam[1]>> ELSE <<>>
        ps == IF size # 0
              THEN <<"h=" \o Join(DecChars(size)), "w=" \o Join(DecChars(size))>>
              ELSE <<>>
        params == pa \o ps
        query == IF params = <<>> THEN ""
                 ELSE "?" \o params[1]
                      \o Join([i \in 1 .. Len(params) - 1 |-> "&" \o params[i + 1]])
    IN  "https://images.slovyagin.com/" \o Join(ReplaceExtension(fileName)) \o query

(***************************************************************************)
(* The upstream provider.  A resource of a listing is an asset number; the *)
(* provider's detail answer for it (fetchResource's JSON) is Detail(a).    *)
(* An optional field is <<>> when absent and <<v>> when present.  The      *)
(* catalogue varies every field the normalization reads.                   *)
(***************************************************************************)
\* asset_id: six characters; assets 2k and 2k+1 share their first four.
\* colors: a list of swatches <<hex, percentage>>.
AssetIdOf(a) ==
    <<HexDigits[((a \div 32) % 16) + 1], HexDigits[((a \div 2) % 16) + 1],
      "c", "0", HexDigits[(a % 2) + 1], "e">>

ColorsOf(a) ==
    CASE a % 4 = 0 -> <<>>
      [] a % 4 = 1 -> << << <<"#FFFFFF", 60>>, <<"#000000", 40>> >> >>
      [] a % 4 = 2 -> << << <<"#101010", 40>>, <<"#202020", 30>>, <<"#303030", 15>>,
                            <<"#1A2B3C", 10>>, <<"#FFFFFF", 5>> >> >>
      [] OTHER     -> << << <<"#101010", 40>>, <<"#202020", 30>>, <<"#303030", 20>>,
                            <<"#FFEEDD", 10>> >> >>

CaptionOf(a) ==
    CASE a % 5 = 0 -> <<>>
      [] a % 5 = 1 -> << <<>> >>
      [] a % 5 = 2 -> << <<"R", "e", "d", ",", " ", "S", "e", "a">> >>
      [] a % 5 = 3 -> << <<"a", ",", "b">> >>
      [] OTHER     -> << <<"T", "w", "o", " ", "W", "o", "r", "d", "s">> >>

SecureUrlOf(a) ==
    LET stem == <<"i", "m", "g">> \o DecChars(a)
    IN  CASE a % 3 = 0 -> [path |-> <<"demo", "image", "upload", stem \o <<".", "j", "p", "g">> >>,
                           a |-> <<>>]
          [] a % 3 = 1 -> [path |-> <<"demo", "image", "upload", stem \o <<".", "p", "n", "g">> >>,
                           a |-> <<"x1">>]
          [] OTHER     -> [path |-> <<"demo", "image", "upload", stem>>, a |-> <<>>]

\* A colour string as the code indexes it: a sequence of characters.
Chars(str) ==
    CASE str = "#FFFFFF" -> <<"#", "F", "F", "F", "F", "F", "F">>
      [] str = "#000000" -> <<"#", "0", "0", "0", "0", "0", "0">>
      [] str = "#101010" -> <<"#", "1", "0", "1", "0", "1", "0">>
      [] str = "#202020" -> <<"#", "2", "0", "2", "0", "2", "0">>
      [] str = "#303030" -> <<"#", "3", "0", "3", "0", "3", "0">>
      [] str = "#1A2B3C" -> <<"#", "1", "A", "2", "B", "3", "C">>
      [] str = "#FFEEDD" -> <<"#", "F", "F", "E", "E", "D", "D">>

Detail(a) ==
    [asset_id |-> AssetIdOf(a),
     colors |-> ColorsOf(a),
     image_metadata |-> CaptionOf(a),
     secure_url |-> SecureUrlOf(a),
     height |-> IF a % 7 = 0 THEN <<>> ELSE <<200 + a>>,
     width |-> IF a % 7 = 0 THEN <<>> ELSE <<100 + a>>]

(***************************************************************************)
(* worker.ts: the body of processResources' loop, lines 141-161: the Image *)
(* built from a listing item and the detail answer res.  An Image's        *)
(* caption is <<>> for null and <<string>> otherwise.                      *)
(***************************************************************************)
\* caption.toLowerCase().replace(/, | /g, '-'): a comma followed by a space,
\* or a space, becomes one hyphen.
RECURSIVE ReplaceSeparators(_)
ReplaceSeparators(cs) ==
    IF cs = <<>> THEN <<>>
    ELSE IF Len(cs) >= 2 /\ cs[1] = "," /\ cs[2] = " "
         THEN <<"-">> \o ReplaceSeparators(SubSeq(cs, 3, Len(cs)))
    ELSE IF cs[1] = " " THEN <<"-">> \o ReplaceSeparators(Tail(cs))
    ELSE <<cs[1]>> \o ReplaceSeparators(Tail(cs))

\* res.colors?.[3]?.[0]?.toLowerCase() ?? '#fff'
BackgroundColor(res) ==
    IF res.colors # <<>> /\ Len(res.colors[1]) >= 4
    THEN ToLowerCase(Chars(res.colors[1][4][1]))
    ELSE <<"#", "f", "f", "f">>

ImageId(caption, assetId) ==
    IF caption # <<>> /\ caption[1] # <<>>
    THEN Join(ReplaceSeparators(ToLowerCase(caption[1]))) \o "-" \o Join(assetId)
    ELSE "p-" \o Join(assetId)

NormalizeResource(item, res) ==
    LET assetId == Slice(AssetIdOf(item), 0, 4)
        backgroundColor == BackgroundColor(res)
        caption == res.image_metadata
    IN  [backgroundColor |-> Join(backgroundColor),
         caption |-> IF caption = <<>> THEN <<>> ELSE <<Join(caption[1])>>,
         color |-> IF invertColor(backgroundColor) THEN "black" ELSE "white",
         height |-> IF res.height = <<>> THEN 0 ELSE res.height[1],
         id |-> ImageId(caption, assetId),
         largeUrl |-> transformCloudinaryUrl(res.secure_url, LARGE_SIZE),
         mobileUrl |-> transformCloudinaryUrl(res.secure_url, MOBILE_SIZE),
         url |-> transformCloudinaryUrl(res.secure_url, BASELINE_SIZE),
         width |-> IF res.width = <<>> THEN 0 ELSE res.width[1]]

\* The Image of every asset of the catalogue, computed once.
ImageOf == [a \in Assets |-> NormalizeResource(a, Detail(a))]

(***************************************************************************)
(* JSON values of the key-value store: null, or a value.  JSON.stringify   *)
(* of a parsed JSON value is injective; its result is modelled as the      *)
(* tagged value.                                                           *)
(***************************************************************************)
Null == [isNull |-> TRUE]
Json(v) == [isNull |-> FALSE, value |-> v]
JsonStringify(b) ==
    IF b.isNull THEN [text |-> "null"] ELSE [text |-> "json", of |-> b.value]

\* The page cache with no page: JSON.stringify({}).
NoPages == [q \in {} |-> <<>>]

(***************************************************************************)
(* The pure parts of the GET / handler (worker.ts:208-272).                *)
(***************************************************************************)
API_SECRET_KEY == "secret"

\* Mutant of AuthOk: the key is compared only when the header is present.
AuthOk_MissingPasses(apiKey) == apiKey = API_SECRET_KEY \/ apiKey = "absent"

\* auth (worker.ts:195): apiKey !== c.env.API_SECRET_KEY
AuthOk(apiKey) == apiKey = API_SECRET_KEY

\* Mutant of ResourcesHaveChanged: only the number of resources is compared.
ResourcesHaveChanged_LengthOnly(storedResources, currentResources) ==
    \/ storedResources.isNull
    \/ Len(storedResources.value) # Len(currentResources)

\* worker.ts:216
ResourcesHaveChanged(storedResources, currentResources) ==
    JsonStringify(storedResources) # JsonStringify(Json(currentResources))

\* Mutant of ForceRegenerate: every request regenerates.
ForceRegenerate_Always(forceQuery) == TRUE

\* Mutant of ForceRegenerate: the force flag is ignored.
ForceRegenerate_Ignored(forceQuery) == FALSE

\* worker.ts:217
ForceRegenerate(forceQuery) == forceQuery = "true"

\* worker.ts:230: Number.parseInt(c.req.query('page') || '1', 10); the query
\* is <<>> when absent and <<n>> when it parses to n.
CurrentPage(pageQuery) == IF pageQuery = <<>> THEN 1 ELSE pageQuery[1]

\* Mutant of StartIndex: pages counted from 0.
StartIndex_FromZero(currentPage) == currentPage * ITEMS_PER_PAGE

\* worker.ts:236-239
StartIndex(currentPage) == (currentPage - 1) * ITEMS_PER_PAGE
EndIndex(currentPage) == StartIndex(currentPage) + ITEMS_PER_PAGE
TotalPages(totalResources) ==
    (totalResources + ITEMS_PER_PAGE - 1) \div ITEMS_PER_PAGE

\* Mutant of PageIsValid: the upper end is not checked.
PageIsValid_NoUpperEnd(currentPage, totalPages) == currentPage > 0

\* worker.ts:245: currentPage > 0 && currentPage <= totalPages
PageIsValid(currentPage, totalPages) ==
    currentPage > 0 /\ currentPage <= totalPages

\* Mutant of HasPage: the cached page is never found.
HasPage_Never(storedImages, currentPage) == FALSE

\* worker.ts:242, 245: storedImages?.[currentPage]
HasPage(storedImages, currentPage) ==
    ~storedImages.isNull /\ currentPage \in DOMAIN storedImages.value
CachedPage(storedImages, currentPage) ==
    IF HasPage(storedImages, currentPage)
    THEN storedImages.value[currentPage] ELSE <<>>

\* worker.ts:247: Array.prototype.slice(startIndex, endIndex), 0 <= startIndex
PaginatedResources(resources, currentPage) ==
    Slice(resources, StartIndex(currentPage), EndIndex(currentPage))

\* worker.ts:255-258: { ...storedImages, [currentPage]: images }
MergePage(storedImages, currentPage, images) ==
    LET old == IF storedImages.isNull THEN NoPages ELSE storedImages.value
    IN  [q \in DOMAIN old \cup {currentPage} |->
            IF q = currentPage THEN images ELSE old[q]]

\* worker.ts:263-271
ResponseBody(images, currentPage, totalResources) ==
    [images |-> images,
     pagination |-> [current_page |-> currentPage,
                     per_page |-> ITEMS_PER_PAGE,
                     total_pages |-> TotalPages(totalResources),
                     total_items |-> totalResources]]

\* worker.ts:288-304: storedResources?.resources.length is undefined, and its
\* Math.ceil is NaN, when nothing is stored.
DevResponseBody(images, currentPage, storedResources) ==
    [images |-> images,
     pagination |-> [current_page |-> currentPage,
                     per_page |-> ITEMS_PER_PAGE,
                     total_pages |-> IF storedResources.isNull THEN "NaN"
                                     ELSE TotalPages(Len(storedResources.value)),
                     total_items |-> IF storedResources.isNull THEN "undefined"
                                     ELSE Len(storedResources.value)]]

\* The images of a whole page of a listing, as processResources builds them.
NormalizePage(resources, currentPage) ==
    LET items == PaginatedResources(resources, currentPage)
    IN  [i \in 1 .. Len(items) |-> ImageOf[items[i]]]

(***************************************************************************)
(* Inputs.                                                                 *)
(***************************************************************************)
Reqs == {1, 2}
Endpoints == {"/", "/dev"}
ApiKeys == {"secret", "wrong", "absent"}
ForceQueries == {"true", "false"}
PageQueries == {<<>>} \cup {<<n>> : n \in (0 - 1) .. MaxPage}
\* The statuses of a failing upstream call.
UpstreamErrors == {401, 500}

Asc(n) == [i \in 1 .. n |-> i]
SwapFirst(l) ==
    [i \in 1 .. Len(l) |-> IF i = 1 THEN l[2] ELSE IF i = 2 THEN l[1] ELSE l[i]]
Lens == {0, 1, ITEMS_PER_PAGE, ITEMS_PER_PAGE + 1, MaxAsset}
\* The listings the provider may hold: resources added, removed, reordered.
Listings ==
    {Asc(n) : n \in Lens} \cup {SwapFirst(Asc(n)) : n \in Lens \ {0, 1}}

(***************************************************************************)
(* State.                                                                  *)
(*   upstream     the listing the provider holds now                       *)
(*   kvResources  the store's folder snapshot blob (Null before any put)   *)
(*   kvImages     the store's page cache blob: page number -> Images       *)
(*   req          each request slot: the handler's position (pc), its      *)
(*                inputs, its local variables, what it has issued so far   *)
(*                (ops, detailCalls) and its answer (status, body)         *)
(*   computed     history: the images of each page as the request that     *)
(*                stored it returned them, since the last cache reset      *)
(***************************************************************************)
VARIABLES upstream, kvResources, kvImages, req, computed

vars == <<upstream, kvResources, kvImages, req, computed>>

NoOps == [getResources |-> 0, getImages |-> 0, putResources |-> 0,
          putReset |-> 0, putPage |-> 0, fetchFolder |-> 0]

NewRequest(endpoint, apiKey, pageQuery, forceQuery) ==
    [pc |-> "idle", endpoint |-> endpoint, apiKey |-> apiKey,
     pageQuery |-> pageQuery, forceQuery |-> forceQuery,
     done |-> {}, storedResources |-> Null, currentResources |-> <<>>,
     storedImages |-> Null, images |-> <<>>, detailCalls |-> <<>>,
     ops |-> NoOps, status |-> 0, error |-> "", body |-> [message |-> ""]]

Init ==
    /\ upstream \in Listings
    /\ kvResources = Null
    /\ kvImages = Null
    /\ req = [r \in Reqs |-> NewRequest("/", "absent", <<>>, "false")]
    /\ computed = NoPages

\* No request is being handled / no request is in the worker at all.
Quiet == \A r \in Reqs : req[r].pc \in {"idle", "done"}
AllIdle == \A r \in Reqs : req[r].pc = "idle"

\* A request's answer: the handler returns its JSON body (worker.ts:263-271,
\* 296-304) ...
Answer(rec, body) ==
    [rec EXCEPT !.pc = "done", !.done = {}, !.status = 200, !.body = body]

\* ... or the error handler (worker.ts:180-186) renders the HTTPException
\* thrown: its status and its message.  error names the place that threw.
Throw(rec, error, status, message) ==
    [rec EXCEPT !.pc = "done", !.done = {}, !.status = status,
                !.error = error, !.body = [message |-> message]]

(***************************************************************************)
(* auth (worker.ts:192-200), run when a request arrives.                   *)
(***************************************************************************)
AuthReject(r, endpoint, apiKey, pageQuery, forceQuery) ==
    /\ req[r].pc = "idle"
    /\ ~AuthOk(apiKey)
    /\ req' = [req EXCEPT ![r] =
                 Throw(NewRequest(endpoint, apiKey, pageQuery, forceQuery),
                       "auth", 401, "Unauthorized")]
    /\ UNCHANGED <<upstream, kvResources, kvImages, computed>>

\* next(): the handler starts and issues its first Promise.all.
AuthPass(r, endpoint, apiKey, pageQuery, forceQuery) ==
    /\ req[r].pc = "idle"
    /\ AuthOk(apiKey)
    /\ req' = [req EXCEPT ![r] =
                 [NewRequest(endpoint, apiKey, pageQuery, forceQuery)
                    EXCEPT !.pc = IF endpoint = "/" THEN "fetch" ELSE "devfetch"]]
    /\ UNCHANGED <<upstream, kvResources, kvImages, computed>>

(***************************************************************************)
(* GET / (worker.ts:208-272).                                              *)
(***************************************************************************)
\* worker.ts:216-227, run when both halves of the first Promise.all are in:
\* either the two puts of the invalidation are issued, or the page cache read.
AfterFetch(rec) ==
    [rec EXCEPT !.done = {},
                !.pc = IF \/ ResourcesHaveChanged(rec.storedResources,
                                                  rec.currentResources)
                          \/ ForceRegenerate(rec.forceQuery)
                       THEN "invalidate" ELSE "images"]

\* worker.ts:211: HOMEPAGE_KV.get(CLOUDINARY_RESOURCES_KV_KEY_NAME, 'json')
GetStoredResources(r) ==
    /\ req[r].pc = "fetch"
    /\ "stored" \notin req[r].done
    /\ LET rec == [req[r] EXCEPT !.storedResources = kvResources,
                                 !.done = @ \cup {"stored"},
                                 !.ops.getResources = @ + 1]
       IN  req' = [req EXCEPT ![r] =
                     IF "current" \in rec.done THEN AfterFetch(rec) ELSE rec]
    /\ UNCHANGED <<upstream, kvResources, kvImages, computed>>

\* worker.ts:212, 71-96: fetchFolder answers with the provider's listing
fetchFolderOk(r) ==
    /\ req[r].pc = "fetch"
    /\ "current" \notin req[r].done
    /\ LET rec == [req[r] EXCEPT !.currentResources = upstream,
                                 !.done = @ \cup {"current"},
                                 !.ops.fetchFolder = @ + 1]
       IN  req' = [req EXCEPT ![r] =
                     IF "stored" \in rec.done THEN AfterFetch(rec) ELSE rec]
    /\ UNCHANGED <<upstream, kvResources, kvImages, computed>>

\* Mutant of fetchFolderFail: the listing call is retried once, fails again,
\* and only then is the error thrown.
fetchFolderFail_Retried(r, status) ==
    /\ req[r].pc = "fetch"
    /\ "current" \notin req[r].done
    /\ req' = [req EXCEPT ![r] =
                 Throw([req[r] EXCEPT !.ops.fetchFolder = @ + 2],
                       "fetchFolder", status, "Cloudinary API error")]
    /\ UNCHANGED <<upstream, kvResources, kvImages, computed>>

\* worker.ts:91-93: a non-success status is thrown as an HTTPException of
\* that status; Promise.all rejects and the error handler answers with it.
fetchFolderFail(r, status) ==
    /\ req[r].pc = "fetch"
    /\ "current" \notin req[r].done
    /\ req' = [req EXCEPT ![r] =
                 Throw([req[r] EXCEPT !.ops.fetchFolder = @ + 1],
                       "fetchFolder", status, "Cloudinary API error")]
    /\ UNCHANGED <<upstream, kvResources, kvImages, computed>>

\* worker.ts:230-233, run when both puts of the invalidation are done.
AfterInvalidate(rec) ==
    IF rec.done = {"resources", "images"}
    THEN [rec EXCEPT !.done = {}, !.pc = "images"] ELSE rec

\* worker.ts:223: put(CLOUDINARY_RESOURCES_KV_KEY_NAME, currentResources)
PutResources(r) ==
    /\ req[r].pc = "invalidate"
    /\ "resources" \notin req[r].done
    /\ kvResources' = Json(req[r].currentResources)
    /\ req' = [req EXCEPT ![r] =
                 AfterInvalidate([req[r] EXCEPT !.done = @ \cup {"resources"},
                                                !.ops.putResources = @ + 1])]
    /\ UNCHANGED <<upstream, kvImages, computed>>

\* worker.ts:225: put(IMAGES_KV_KEY_NAME, JSON.stringify({}))
ResetImages(r) ==
    /\ req[r].pc = "invalidate"
    /\ "images" \notin req[r].done
    /\ kvImages' = Json(NoPages)
    /\ computed' = NoPages
    /\ req' = [req EXCEPT ![r] =
                 AfterInvalidate([req[r] EXCEPT !.done = @ \cup {"images"},
                                                !.ops.putReset = @ + 1])]
    /\ UNCHANGED <<upstream, kvResources>>

\* Mutant of GetImages: on a miss the detail fetches of the whole slice are
\* issued at once.
GetImages_FanOut(r) ==
    /\ req[r].pc = "images"
    /\ LET rec == [req[r] EXCEPT !.storedImages = kvImages,
                                 !.ops.getImages = @ + 1]
           currentPage == CurrentPage(rec.pageQuery)
           totalResources == Len(rec.currentResources)
           images == CachedPage(rec.storedImages, currentPage)
           items == PaginatedResources(rec.currentResources, currentPage)
       IN  req' = [req EXCEPT ![r] =
             IF ~HasPage(rec.storedImages, currentPage)
                /\ PageIsValid(currentPage, TotalPages(totalResources))
             THEN [rec EXCEPT !.pc = IF items = <<>> THEN "store" ELSE "process",
                              !.images = <<>>, !.detailCalls = items]
             ELSE Answer([rec EXCEPT !.images = images],
                         ResponseBody(images, currentPage, totalResources))]
    /\ UNCHANGED <<upstream, kvResources, kvImages, computed>>

\* worker.ts:233-250, 263-271: the page cache is read; on a hit or an invalid
\* page the handler answers at once, otherwise processResources starts and
\* issues the first detail fetch.
GetImages(r) ==
    /\ req[r].pc = "images"
    /\ LET rec == [req[r] EXCEPT !.storedImages = kvImages,
                                 !.ops.getImages = @ + 1]
           currentPage == CurrentPage(rec.pageQuery)
           totalResources == Len(rec.currentResources)
           totalPages == TotalPages(totalResources)
           images == CachedPage(rec.storedImages, currentPage)
           items == PaginatedResources(rec.currentResources, currentPage)
       IN  req' = [req EXCEPT ![r] =
             IF ~HasPage(rec.storedImages, currentPage)
                /\ PageIsValid(currentPage, totalPages)
             THEN IF items = <<>>
                  THEN [rec EXCEPT !.pc = "store", !.images = <<>>]
                  ELSE [rec EXCEPT !.pc = "process", !.images = <<>>,
                                   !.detailCalls = <<items[1]>>]
             ELSE Answer([rec EXCEPT !.images = images],
                         ResponseBody(images, currentPage, totalResources))]
    /\ UNCHANGED <<upstream, kvResources, kvImages, computed>>

\* worker.ts:139-161: the outstanding detail fetch answers; its Image is
\* pushed and the next item's fetch is issued, or the loop ends and the put
\* of the page is issued.
fetchResourceOk(r) ==
    /\ req[r].pc = "process"
    /\ LET rec == req[r]
           items == PaginatedResources(rec.currentResources,
                                       CurrentPage(rec.pageQuery))
           i == Len(rec.images) + 1
           images == Append(rec.images, ImageOf[items[i]])
       IN  req' = [req EXCEPT ![r] =
             IF i = Len(items)
             THEN [rec EXCEPT !.pc = "store", !.images = images]
             ELSE [rec EXCEPT !.images = images,
                              !.detailCalls = Append(@, items[i + 1])]]
    /\ UNCHANGED <<upstream, kvResources, kvImages, computed>>

\* Mutant of fetchResourceFail: the catch ends the loop instead of throwing,
\* and what was collected so far is stored and returned.
fetchResourceFail_Break(r, status) ==
    /\ req[r].pc = "process"
    /\ req' = [req EXCEPT ![r].pc = "store"]
    /\ UNCHANGED <<upstream, kvResources, kvImages, computed>>

\* worker.ts:121-123, 162-166: the outstanding detail fetch fails; the catch
\* rethrows it as an HTTPException of status 500.
fetchResourceFail(r, status) ==
    /\ req[r].pc = "process"
    /\ req' = [req EXCEPT ![r] =
                 Throw(req[r], "fetchResource", 500,
                       "Cloudinary resource details error")]
    /\ UNCHANGED <<upstream, kvResources, kvImages, computed>>

\* worker.ts:253-271: the page is merged into the cache read at line 233 and
\* put; the handler answers.
PutImages(r) ==
    /\ req[r].pc = "store"
    /\ LET rec == req[r]
           currentPage == CurrentPage(rec.pageQuery)
       IN  /\ kvImages' = Json(MergePage(rec.storedImages, currentPage, rec.images))
           /\ computed' = [q \in DOMAIN computed \cup {currentPage} |->
                             IF q = currentPage THEN rec.images ELSE computed[q]]
           /\ req' = [req EXCEPT ![r] =
                        Answer([rec EXCEPT !.ops.putPage = @ + 1],
                               ResponseBody(rec.images, currentPage,
                                            Len(rec.currentResources)))]
    /\ UNCHANGED <<upstream, kvResources>>

(***************************************************************************)
(* GET /dev (worker.ts:278-305).                                           *)
(***************************************************************************)
\* Mutant of AfterDevFetch: the page query is not read; page 1 is served.
AfterDevFetch_FirstPage(rec) ==
    IF rec.done = {"stored", "images"}
    THEN LET images == IF ~rec.storedImages.isNull
                          /\ 1 \in DOMAIN rec.storedImages.value
                       THEN rec.storedImages.value[1] ELSE <<>>
         IN  [rec EXCEPT !.pc = "done", !.done = {}, !.status = 200,
                         !.images = images,
                         !.body = [images |-> images,
                                   pagination |-> [current_page |-> 1]]]
    ELSE rec

\* worker.ts:288-304, run when both reads are in.
AfterDevFetch(rec) ==
    IF rec.done = {"stored", "images"}
    THEN LET currentPage == CurrentPage(rec.pageQuery)
             images == CachedPage(rec.storedImages, currentPage)
         IN  Answer([rec EXCEPT !.images = images],
                    DevResponseBody(images, currentPage, rec.storedResources))
    ELSE rec

\* worker.ts:284
DevGetStoredResources(r) ==
    /\ req[r].pc = "devfetch"
    /\ "stored" \notin req[r].done
    /\ req' = [req EXCEPT ![r] =
                 AfterDevFetch([req[r] EXCEPT !.storedResources = kvResources,
                                              !.done = @ \cup {"stored"},
                                              !.ops.getResources = @ + 1])]
    /\ UNCHANGED <<upstream, kvResources, kvImages, computed>>

\* worker.ts:285
DevGetImages(r) ==
    /\ req[r].pc = "devfetch"
    /\ "images" \notin req[r].done
    /\ req' = [req EXCEPT ![r] =
                 AfterDevFetch([req[r] EXCEPT !.storedImages = kvImages,
                                              !.done = @ \cup {"images"},
                                              !.ops.getImages = @ + 1])]
    /\ UNCHANGED <<upstream, kvResources, kvImages, computed>>

(***************************************************************************)
(* The answer has been sent (worker.ts:263, 296, 180-186): the slot is     *)
(* free for the next request.                                              *)
(***************************************************************************)
Respond(r) ==
    /\ req[r].pc = "done"
    /\ req' = [req EXCEPT ![r] = NewRequest("/", "absent", <<>>, "false")]
    /\ UNCHANGED <<upstream, kvResources, kvImages, computed>>

(***************************************************************************)
(* The provider's folder changes.                                          *)
(***************************************************************************)
UpstreamChange(l) ==
    /\ l # upstream
    /\ upstream' = l
    /\ UNCHANGED <<kvResources, kvImages, req, computed>>

(***************************************************************************)
(* Specifications.                                                         *)
(***************************************************************************)
\* A step of the GET / request in slot r.
WorkGet(r) ==
    \/ GetStoredResources(r)
    \/ fetchFolderOk(r)
    \/ \E status \in UpstreamErrors : fetchFolderFail(r, status)
    \/ PutResources(r)
    \/ ResetImages(r)
    \/ GetImages(r)
    \/ fetchResourceOk(r)
    \/ \E status \in UpstreamErrors : fetchResourceFail(r, status)
    \/ PutImages(r)

\* A step of the GET /dev request in slot r.
WorkDev(r) ==
    \/ DevGetStoredResources(r)
    \/ DevGetImages(r)

Arrive(r) ==
    \E endpoint \in Endpoints, apiKey \in ApiKeys,
       pageQuery \in PageQueries, forceQuery \in ForceQueries :
        \/ AuthReject(r, endpoint, apiKey, pageQuery, forceQuery)
        \/ AuthPass(r, endpoint, apiKey, pageQuery, forceQuery)

\* Requests one at a time (section 5: a single logical request handler per
\* incoming call); the folder changes between requests.
Next ==
    \/ AllIdle /\ Arrive(1)
    \/ WorkGet(1)
    \/ WorkDev(1)
    \/ Respond(1)
    \/ \E l \in Listings : AllIdle /\ UpstreamChange(l)

Spec == Init /\ [][Next]_vars

\* The listings of the specifications with overlapping requests: one page,
\* with a resource added, removed or reordered.
SmallListings == {Asc(1), Asc(2), SwapFirst(Asc(2))}

\* The initial states with the provider's listing among ls.
InitWith(ls) ==
    /\ upstream \in ls
    /\ kvResources = Null
    /\ kvImages = Null
    /\ req = [r \in Reqs |-> NewRequest("/", "absent", <<>>, "false")]
    /\ computed = NoPages

InFlight(r) == req[r].pc \notin {"idle", "done"}

\* Two overlapping GET / requests for the same page (section 5: no locking):
\* after requests handled one at a time, a second request for the page of the
\* request being handled arrives, and the two run in any interleaving of
\* their steps.  The folder does not change while a request is in the worker.
NextPair ==
    \/ \E pageQuery \in PageQueries, forceQuery \in ForceQueries :
          AllIdle /\ AuthPass(1, "/", "secret", pageQuery, forceQuery)
    \/ \E forceQuery \in ForceQueries :
          InFlight(1) /\ AuthPass(2, "/", "secret", req[1].pageQuery, forceQuery)
    \/ \E r \in Reqs : WorkGet(r)
    \/ req[2].pc = "idle" /\ Respond(1)
    \/ \E l \in SmallListings : AllIdle /\ UpstreamChange(l)

SpecPair == InitWith(SmallListings) /\ [][NextPair]_vars

\* Any number of GET / requests overlapping in the two slots, while a
\* resource is added to the folder or removed from it at any moment.
ConcListings == {Asc(1), Asc(2)}

NextConc ==
    \/ \E r \in Reqs, pageQuery \in {<<>>, <<2>>}, forceQuery \in ForceQueries :
          AuthPass(r, "/", "secret", pageQuery, forceQuery)
    \/ \E r \in Reqs : WorkGet(r)
    \/ \E r \in Reqs : Respond(r)
    \/ \E l \in ConcListings : UpstreamChange(l)

SpecConc == InitWith(ConcListings) /\ [][NextConc]_vars

\* Mutant of Crash: the request stops only once the puts it has issued are
\* both done, so a stop during the invalidation leaves the cache reset.
Crash_AfterReset(r) ==
    /\ req[r].endpoint = "/"
    /\ InFlight(r)
    /\ req' = [req EXCEPT ![r] = Throw(req[r], "crash", 0, "")]
    /\ kvImages' = IF req[r].pc = "invalidate" THEN Json(NoPages) ELSE kvImages
    /\ UNCHANGED <<upstream, kvResources, computed>>

\* The GET / request in slot r stops at one of its awaits (worker.ts:210-259:
\* the worker is terminated, or an awaited put rejects): what it has put so
\* far stays in the store, what it has not put is never put, and no answer of
\* the handler is sent.  The two puts of the invalidation (worker.ts:220-227)
\* are independent, so a request that stops between them has done one only.
Crash(r) ==
    /\ req[r].endpoint = "/"
    /\ InFlight(r)
    /\ req' = [req EXCEPT ![r] = Throw(req[r], "crash", 0, "")]
    /\ UNCHANGED <<upstream, kvResources, kvImages, computed>>

\* Requests one at a time, any of which may stop at any of its awaits.
NextTorn ==
    \/ AllIdle /\ Arrive(1)
    \/ WorkGet(1)
    \/ WorkDev(1)
    \/ Respond(1)
    \/ \E l \in SmallListings : AllIdle /\ UpstreamChange(l)
    \/ Crash(1)

SpecTorn == InitWith(SmallListings) /\ [][NextTorn]_vars

\* Overlapping GET / requests for the two pages of a listing of
\* ITEMS_PER_PAGE + 1 resources that does not change.
TwoPages == Asc(ITEMS_PER_PAGE + 1)

NextMerge ==
    \/ \E r \in Reqs, pageQuery \in {<<1>>, <<2>>} :
          AuthPass(r, "/", "secret", pageQuery, "false")
    \/ \E r \in Reqs : WorkGet(r)
    \/ \E r \in Reqs : Respond(r)

SpecMerge == InitWith({TwoPages}) /\ [][NextMerge]_vars

(***************************************************************************)
(* The claims.  Their vocabulary is stated from the specification's words, *)
(* apart from the handler's own operators.                                 *)
(***************************************************************************)
\* The page a request asks for (default 1).
PageOf(rec) == IF rec.pageQuery = <<>> THEN 1 ELSE rec.pageQuery[1]
\* ceil(n / ITEMS_PER_PAGE): the least k with k * ITEMS_PER_PAGE >= n.
CeilPages(n) == CHOOSE k \in 0 .. n : k * ITEMS_PER_PAGE >= n
                                      /\ (k = 0 \/ (k - 1) * ITEMS_PER_PAGE < n)
\* p is in [1, totalPages] of a listing of n resources.
InRange(p, n) == 1 <= p /\ p <= CeilPages(n)
\* The resources at listing indices (p-1)*S .. min(p*S, N)-1 (0-based).
ExpectedItems(l, p) ==
    LET first == (p - 1) * ITEMS_PER_PAGE
        last == IF p * ITEMS_PER_PAGE < Len(l) THEN p * ITEMS_PER_PAGE ELSE Len(l)
    IN  [i \in 1 .. (last - first) |-> l[first + i]]
\* Their normalization.
ExpectedImages(l, p) ==
    [i \in 1 .. Len(ExpectedItems(l, p)) |-> ImageOf[ExpectedItems(l, p)[i]]]
\* The listing a request fetched differs from the snapshot it read.
ListingChanged(rec) ==
    rec.storedResources.isNull \/ rec.storedResources.value # rec.currentResources
\* The page cache entry of page p in blob b (<<>> when there is none).
EntryOf(b, p) == IF ~b.isNull /\ p \in DOMAIN b.value THEN b.value[p] ELSE <<>>
PagesIn(b) == IF b.isNull THEN {} ELSE DOMAIN b.value
\* A GET / request has been answered with its JSON body.
GetAnswered(rec) == rec.pc = "done" /\ rec.endpoint = "/" /\ rec.status = 200

\* C1. Invalidation: a GET / request whose fetched listing differs from the
\* stored snapshot and whose page p is valid returns the normalization of the
\* new listing's slice for p, and has fetched the detail of every resource of
\* that slice itself (the page is recomputed, not served from the cache).
C1_Invalidation ==
    \A r \in Reqs :
        LET rec == req[r]
            p == PageOf(rec)
        IN  (GetAnswered(rec) /\ ListingChanged(rec)
             /\ InRange(p, Len(rec.currentResources)))
            => /\ rec.currentResources = upstream
               /\ rec.body.images = ExpectedImages(upstream, p)
               /\ rec.detailCalls = ExpectedItems(upstream, p)

\* A changed listing is answered for a page that the replaced snapshot had
\* too, with images other than those of the replaced snapshot's page.
C1_Witness ==
    \E r \in Reqs :
        LET rec == req[r]
            p == PageOf(rec)
        IN  /\ GetAnswered(rec) /\ ListingChanged(rec)
            /\ rec.forceQuery = "false"
            /\ InRange(p, Len(rec.currentResources))
            /\ ~rec.storedResources.isNull
            /\ InRange(p, Len(rec.storedResources.value))
            /\ rec.body.images # ExpectedImages(rec.storedResources.value, p)

C3_Original ==
    \A r \in Reqs :
        LET rec == req[r]
            p == PageOf(rec)
        IN  (GetAnswered(rec) /\ ~InRange(p, Len(rec.currentResources)))
            => /\ rec.body.images = <<>>
               /\ rec.detailCalls = <<>>
               /\ rec.ops.putPage = 0
               /\ rec.ops.putReset = 0

\* C3 as amended. Pagination boundary: a GET / request for a page outside
\* [1, totalPages] returns no image, issues no detail fetch and writes no
\* page to the page cache; its only write to the page cache is the reset of
\* the invalidation, made exactly when it carries force=true or its listing
\* differs from the snapshot.
C3_Boundary ==
    \A r \in Reqs :
        LET rec == req[r]
            p == PageOf(rec)
        IN  (GetAnswered(rec) /\ ~InRange(p, Len(rec.currentResources)))
            => /\ rec.body.images = <<>>
               /\ rec.detailCalls = <<>>
               /\ rec.ops.putPage = 0
               /\ kvImages = rec.storedImages
               /\ p \notin PagesIn(kvImages)
               /\ rec.ops.putReset =
                    IF rec.forceQuery = "true" \/ ListingChanged(rec) THEN 1 ELSE 0

\* Page totalPages + 1 is asked for while the cache holds every page.
C3_Witness ==
    \E r \in Reqs :
        LET rec == req[r]
            p == PageOf(rec)
        IN  /\ GetAnswered(rec)
            /\ p = CeilPages(Len(rec.currentResources)) + 1
            /\ p > 1
            /\ PagesIn(kvImages) = 1 .. (p - 1)
            /\ rec.body.images = <<>>

\* C4. Global invalidation: a GET / request that has its listing and
\* carries force=true, or whose listing differs from the snapshot, has put
\* the listing as the snapshot and reset the page cache: when it completes
\* the cache holds no page other than the one it asked for.
C4_GlobalInvalidation ==
    \A r \in Reqs :
        LET rec == req[r]
            p == PageOf(rec)
        IN  (rec.pc = "done" /\ rec.endpoint = "/"
             /\ rec.error \notin {"auth", "fetchFolder"}
             /\ (rec.forceQuery = "true" \/ ListingChanged(rec)))
            => /\ kvResources = Json(rec.currentResources)
               /\ ~kvImages.isNull
               /\ PagesIn(kvImages) \subseteq {p}
               /\ rec.ops.putResources = 1
               /\ rec.ops.putReset = 1

\* A forced request with an unchanged listing of three pages ends with its
\* own page as the only one.
C4_Witness ==
    \E r \in Reqs :
        LET rec == req[r]
        IN  /\ GetAnswered(rec) /\ ~ListingChanged(rec)
            /\ rec.forceQuery = "true"
            /\ CeilPages(Len(rec.currentResources)) = 3
            /\ PagesIn(kvImages) = {PageOf(rec)}

\* C5. Page slicing and metadata: a GET / request that misses the cache on a
\* valid page p fetches the details of exactly the resources at listing
\* indices (p-1)*S .. min(p*S, N)-1, in order, and every successful answer
\* reports total_items = N, total_pages = ceil(N / S), per_page = S and
\* current_page = p.
C5_PageSlicing ==
    \A r \in Reqs :
        LET rec == req[r]
            p == PageOf(rec)
            n == Len(rec.currentResources)
        IN  GetAnswered(rec)
            => /\ rec.body.pagination =
                    [current_page |-> p, per_page |-> ITEMS_PER_PAGE,
                     total_pages |-> CeilPages(n), total_items |-> n]
               /\ (p \notin PagesIn(rec.storedImages) /\ InRange(p, n))
                    => /\ rec.detailCalls = ExpectedItems(rec.currentResources, p)
                       /\ rec.ops.putPage = 1
               /\ rec.ops.putPage = 1 => InRange(p, n)

\* The example of section 8: 85 resources, page 2, indices 40..79.
C5_Witness ==
    \E r \in Reqs :
        LET rec == req[r]
        IN  /\ GetAnswered(rec)
            /\ Len(rec.currentResources) = 85
            /\ PageOf(rec) = 2
            /\ rec.ops.putPage = 1
            /\ rec.detailCalls = [i \in 1 .. 40 |-> rec.currentResources[40 + i]]
            /\ rec.body.pagination.total_pages = 3
            /\ rec.body.pagination.total_items = 85

\* C6. Fail-fast: a GET / request one of whose detail fetches failed is
\* answered 500 without images and has written no entry for its page; a
\* successful answer for a valid page holds one image per resource of the
\* page's slice.
C6_FailFast ==
    \A r \in Reqs :
        LET rec == req[r]
            p == PageOf(rec)
        IN  /\ (rec.pc = "done" /\ rec.error = "fetchResource")
               => /\ rec.status = 500
                  /\ "images" \notin DOMAIN rec.body
                  /\ rec.ops.putPage = 0
                  /\ kvImages = rec.storedImages
                  /\ p \notin PagesIn(kvImages)
            /\ (GetAnswered(rec) /\ InRange(p, Len(rec.currentResources)))
               => Len(rec.body.images) = Len(ExpectedItems(rec.currentResources, p))

\* A detail fetch failed after others of the page had succeeded.
C6_Witness ==
    \E r \in Reqs :
        /\ req[r].pc = "done" /\ req[r].error = "fetchResource"
        /\ req[r].status = 500
        /\ Len(req[r].images) >= 1

\* C7. Authentication gate: a request to either endpoint whose X-API-Key is
\* missing or is not the secret is answered 401, having read and written
\* nothing in the store and called the provider not at all.
C7_AuthGate ==
    \A r \in Reqs :
        (req[r].pc # "idle" /\ req[r].apiKey # "secret")
        => /\ req[r].pc = "done"
           /\ req[r].status = 401
           /\ req[r].ops = NoOps
           /\ req[r].detailCalls = <<>>

\* A GET /dev request without the header is rejected while the cache holds
\* a page.
C7_Witness ==
    \E r \in Reqs :
        /\ req[r].pc = "done" /\ req[r].apiKey = "absent"
        /\ req[r].endpoint = "/dev"
        /\ req[r].status = 401
        /\ PagesIn(kvImages) # {}

\* C8. Read-only dev endpoint: no step taken while a GET /dev request is
\* being handled changes the snapshot or the page cache; the request calls
\* the provider not at all, puts nothing, and is answered with exactly the
\* page cache's entry for its page (no image when there is none).
C8_DevReadOnly ==
    [][\A r \in Reqs :
        req[r].pc = "devfetch"
        => /\ kvResources' = kvResources
           /\ kvImages' = kvImages
           /\ req'[r].ops.fetchFolder = 0
           /\ req'[r].detailCalls = <<>>
           /\ req'[r].ops.putResources = 0
           /\ req'[r].ops.putReset = 0
           /\ req'[r].ops.putPage = 0
           /\ req'[r].pc = "done"
              => /\ req'[r].status = 200
                 /\ req'[r].body.images = EntryOf(kvImages, PageOf(req[r]))]_vars

\* A GET /dev request is answered with the images of a cached page.
C8_Witness ==
    \E r \in Reqs :
        /\ req[r].pc = "done" /\ req[r].endpoint = "/dev"
        /\ req[r].status = 200
        /\ req[r].body.images # <<>>
        /\ req[r].body.images = EntryOf(kvImages, PageOf(req[r]))

\* Every page the cache holds is the normalization of its slice of the
\* stored snapshot.
PageCacheMatchesSnapshot ==
    \A p \in PagesIn(kvImages) :
        /\ ~kvResources.isNull
        /\ InRange(p, Len(kvResources.value))
        /\ kvImages.value[p] = ExpectedImages(kvResources.value, p)

\* C9 as claimed. Concurrent same-page requests: when two GET / requests for
\* the same page p overlap in any interleaving of their store reads, detail
\* fetches and store writes, then after both complete the page cache's entry
\* for p, if there is one, equals the normalization of the slice for p of the
\* listing held in the stored snapshot.
C9_Original ==
    (/\ req[1].pc = "done" /\ req[2].pc = "done"
     /\ req[1].endpoint = "/" /\ req[2].endpoint = "/"
     /\ req[1].error # "auth" /\ req[2].error # "auth"
     /\ PageOf(req[1]) = PageOf(req[2]))
    => LET p == PageOf(req[2])
       IN  p \in PagesIn(kvImages)
           => /\ ~kvResources.isNull
              /\ kvImages.value[p] = ExpectedImages(kvResources.value, p)

\* C10 as claimed. Page cache invariant: whenever no request is being
\* handled, also after overlapping GET / requests between which the listing
\* changed, every page of the cache was computed from the stored snapshot.
C10_Original == Quiet => PageCacheMatchesSnapshot

(***************************************************************************)
(* The shuffling variant (src/unnamed/part_000): one images blob for the   *)
(* whole listing, no pages; a failed detail fetch is logged and skipped;   *)
(* the response is the shuffled list.  It uses the same store and the same *)
(* provider; kvImages holds the list of all images, req[r].images the      *)
(* handler's images array, req[r].detailCalls the resources whose detail   *)
(* fetch has been issued.                                                  *)
(***************************************************************************)
\* part_000:11-12 (LARGE_SIZE is the same in both variants)
SHUFFLE_MOBILE_SIZE == 800
SHUFFLE_BASELINE_SIZE == 1280

\* part_000:77-98: transformCloudinaryUrl of the variant keeps the file name.
keepNameCloudinaryUrl(originalUrl, size) ==
    LET fileName == IF originalUrl.path = <<>> THEN <<>>
                    ELSE originalUrl.path[Len(originalUrl.path)]
        aParam == originalUrl.a
        pa == IF aParam # <<>> /\ aParam[1] # "" THEN <<"_a=" \o aParam[1]>> ELSE <<>>
        ps == IF size # 0
              THEN <<"h=" \o Join(DecChars(size)), "w=" \o Join(DecChars(size))>>
              ELSE <<>>
        params == pa \o ps
        query == IF params = <<>> THEN ""
                 ELSE "?" \o params[1]
                      \o Join([i \in 1 .. Len(params) - 1 |-> "&" \o params[i + 1]])
    IN  "https://images.slovyagin.com/" \o Join(fileName) \o query

\* part_000:150-165: the Image built from the detail answer res, whose
\* caption is res.context?.custom?.caption.
processCloudinaryResource(res) ==
    LET color == IF res.colors # <<>> /\ Len(res.colors[1]) > 3
                 THEN ToLowerCase(Chars(res.colors[1][4][1]))
                 ELSE <<"t", "r", "a", "n", "s", "p", "a", "r", "e", "n", "t">>
        caption == IF res.image_metadata # <<>> /\ res.image_metadata[1] # <<>>
                   THEN res.image_metadata ELSE <<>>
        assetId == Slice(res.asset_id, 0, 4)
    IN  [backgroundColor |-> Join(color),
         caption |-> IF caption = <<>> THEN <<>> ELSE <<Join(caption[1])>>,
         color |-> IF invertColor(color) THEN "black" ELSE "white",
         height |-> IF res.height = <<>> THEN 0 ELSE res.height[1],
         id |-> ImageId(caption, assetId),
         mobileUrl |-> keepNameCloudinaryUrl(res.secure_url, SHUFFLE_MOBILE_SIZE),
         largeUrl |-> keepNameCloudinaryUrl(res.secure_url, LARGE_SIZE),
         url |-> keepNameCloudinaryUrl(res.secure_url, SHUFFLE_BASELINE_SIZE),
         width |-> IF res.width = <<>> THEN 0 ELSE res.width[1]]

\* The listings of the variant's specification.
ShuffleListings == {Asc(0), Asc(1), Asc(3), SwapFirst(Asc(3))}
ShuffleImageOf == [a \in 1 .. 3 |-> processCloudinaryResource(Detail(a))]

\* Mutant of shuffle: the exchange of line 71 only assigns array[i].
shuffle_Overwrite(array) ==
    {[k \in 1 .. Len(array) |-> array[1]]}

\* part_000:68-75: the results of shuffle(array), one for each choice of the
\* random j in 0..i at every i from length-1 down to 1 (1-based below).
RECURSIVE ShuffleFrom(_, _)
ShuffleFrom(array, i) ==
    IF i <= 1 THEN {array}
    ELSE UNION {ShuffleFrom([array EXCEPT ![i] = array[j], ![j] = array[i]], i - 1) :
                  j \in 1 .. i}
shuffle(array) == ShuffleFrom(array, Len(array))

NodeEnvs == {"development", "production"}

\* part_000:195-207: auth, bypassed when NODE_ENV is development.
ShuffleAuthReject(r, nodeEnv, apiKey) ==
    /\ req[r].pc = "idle"
    /\ nodeEnv # "development" /\ ~AuthOk(apiKey)
    /\ req' = [req EXCEPT ![r] =
                 Throw(NewRequest("/", apiKey, <<>>, "false"),
                       "auth", 401, "Unauthorized")]
    /\ UNCHANGED <<upstream, kvResources, kvImages, computed>>

ShuffleAuthPass(r, nodeEnv, apiKey) ==
    /\ req[r].pc = "idle"
    /\ nodeEnv = "development" \/ AuthOk(apiKey)
    /\ req' = [req EXCEPT ![r] =
                 [NewRequest("/", apiKey, <<>>, "false") EXCEPT !.pc = "get"]]
    /\ UNCHANGED <<upstream, kvResources, kvImages, computed>>

\* part_000:215: once both reads are in, the listing call is issued.
AfterShuffleGets(rec) ==
    IF rec.done = {"stored", "images"}
    THEN [rec EXCEPT !.done = {}, !.pc = "list"] ELSE rec

\* part_000:211
ShuffleGetStoredResources(r) ==
    /\ req[r].pc = "get"
    /\ "stored" \notin req[r].done
    /\ req' = [req EXCEPT ![r] =
                 AfterShuffleGets([req[r] EXCEPT !.storedResources = kvResources,
                                                 !.done = @ \cup {"stored"},
                                                 !.ops.getResources = @ + 1])]
    /\ UNCHANGED <<upstream, kvResources, kvImages, computed>>

\* part_000:212
ShuffleGetStoredImages(r) ==
    /\ req[r].pc = "get"
    /\ "images" \notin req[r].done
    /\ req' = [req EXCEPT ![r] =
                 AfterShuffleGets([req[r] EXCEPT !.storedImages = kvImages,
                                                 !.done = @ \cup {"images"},
                                                 !.ops.getImages = @ + 1])]
    /\ UNCHANGED <<upstream, kvResources, kvImages, computed>>

\* part_000:216, 230: storedImages || []
StoredOrEmpty(storedImages) ==
    IF storedImages.isNull THEN <<>> ELSE storedImages.value

\* part_000:224-232, run when the loop of processCloudinaryResources ends:
\* the two puts are issued when an image was built, otherwise the stored
\* images are taken.
AfterProcess(rec) ==
    IF Len(rec.images) > 0
    THEN [rec EXCEPT !.pc = "put", !.done = {}]
    ELSE [rec EXCEPT !.pc = "shuffle", !.images = StoredOrEmpty(rec.storedImages)]

\* part_000:147-149: the next iteration issues the detail fetch of the next
\* resource, if there is one.
NextResource(rec) ==
    IF Len(rec.detailCalls) = Len(rec.currentResources)
    THEN AfterProcess(rec)
    ELSE [rec EXCEPT !.detailCalls =
                        Append(@, rec.currentResources[Len(rec.detailCalls) + 1])]

\* part_000:215-222: the listing arrives; regeneration starts when nothing
\* is stored or the listing changed.
fetchCloudinaryResourcesOk(r) ==
    /\ req[r].pc = "list"
    /\ LET rec == [req[r] EXCEPT !.currentResources = upstream,
                                 !.ops.fetchFolder = @ + 1,
                                 !.images = StoredOrEmpty(req[r].storedImages)]
       IN  req' = [req EXCEPT ![r] =
             IF rec.storedResources.isNull
                \/ ResourcesHaveChanged(rec.storedResources, rec.currentResources)
             THEN NextResource([rec EXCEPT !.pc = "process", !.images = <<>>])
             ELSE [rec EXCEPT !.pc = "shuffle"]]
    /\ UNCHANGED <<upstream, kvResources, kvImages, computed>>

\* part_000:117-119
fetchCloudinaryResourcesFail(r, status) ==
    /\ req[r].pc = "list"
    /\ req' = [req EXCEPT ![r] =
                 Throw([req[r] EXCEPT !.ops.fetchFolder = @ + 1],
                       "fetchFolder", status, "Cloudinary API error")]
    /\ UNCHANGED <<upstream, kvResources, kvImages, computed>>

\* part_000:149-165: the outstanding detail fetch answers, its image is pushed.
fetchCloudinaryResourceDetailsOk(r) ==
    /\ req[r].pc = "process"
    /\ LET rec == req[r]
           item == rec.detailCalls[Len(rec.detailCalls)]
       IN  req' = [req EXCEPT ![r] =
                     NextResource([rec EXCEPT !.images =
                                       Append(@, ShuffleImageOf[item])])]
    /\ UNCHANGED <<upstream, kvResources, kvImages, computed>>

\* part_000:137-139, 166-168: the detail fetch fails; the catch logs it and
\* the loop goes on without an image for the resource.
fetchCloudinaryResourceDetailsFail(r) ==
    /\ req[r].pc = "process"
    /\ req' = [req EXCEPT ![r] = NextResource(req[r])]
    /\ UNCHANGED <<upstream, kvResources, kvImages, computed>>

\* part_000:234: once both puts are done the list is shuffled.
AfterShufflePuts(rec) ==
    IF rec.done = {"resources", "images"}
    THEN [rec EXCEPT !.done = {}, !.pc = "shuffle"] ELSE rec

\* part_000:226
ShufflePutResources(r) ==
    /\ req[r].pc = "put"
    /\ "resources" \notin req[r].done
    /\ kvResources' = Json(req[r].currentResources)
    /\ req' = [req EXCEPT ![r] =
                 AfterShufflePuts([req[r] EXCEPT !.done = @ \cup {"resources"},
                                                 !.ops.putResources = @ + 1])]
    /\ UNCHANGED <<upstream, kvImages, computed>>

\* part_000:227: JSON.stringify(images) is taken when the put is issued,
\* before the shuffle.
ShufflePutImages(r) ==
    /\ req[r].pc = "put"
    /\ "images" \notin req[r].done
    /\ kvImages' = Json(req[r].images)
    /\ req' = [req EXCEPT ![r] =
                 AfterShufflePuts([req[r] EXCEPT !.done = @ \cup {"images"},
                                                 !.ops.putPage = @ + 1])]
    /\ UNCHANGED <<upstream, kvResources, computed>>

\* part_000:234-236: the images array is shuffled in place and returned.
ShuffleAndAnswer(r) ==
    /\ req[r].pc = "shuffle"
    /\ \E shuffled \in shuffle(req[r].images) :
          req' = [req EXCEPT ![r] =
                    [req[r] EXCEPT !.pc = "done", !.status = 200,
                                   !.images = shuffled, !.body = shuffled]]
    /\ UNCHANGED <<upstream, kvResources, kvImages, computed>>

\* The variant, requests one at a time; the folder changes between requests.
NextShuffle ==
    \/ \E nodeEnv \in NodeEnvs, apiKey \in ApiKeys :
          AllIdle /\ (\/ ShuffleAuthReject(1, nodeEnv, apiKey)
                      \/ ShuffleAuthPass(1, nodeEnv, apiKey))
    \/ ShuffleGetStoredResources(1)
    \/ ShuffleGetStoredImages(1)
    \/ fetchCloudinaryResourcesOk(1)
    \/ \E status \in UpstreamErrors : fetchCloudinaryResourcesFail(1, status)
    \/ fetchCloudinaryResourceDetailsOk(1)
    \/ fetchCloudinaryResourceDetailsFail(1)
    \/ ShufflePutResources(1)
    \/ ShufflePutImages(1)
    \/ ShuffleAndAnswer(1)
    \/ Respond(1)
    \/ \E l \in ShuffleListings : AllIdle /\ UpstreamChange(l)

SpecShuffle == InitWith(ShuffleListings) /\ [][NextShuffle]_vars

\* C11. Listing failure fails the request: a GET / request whose folder
\* listing call was answered with a non-success status ends in an error of
\* that status, without images, having made the call once and having put
\* neither the snapshot nor the page cache; the step in which the call fails
\* leaves the store as it is.
C11_ListingFailure ==
    [][\A r \in Reqs :
        (req'[r].pc = "done" /\ req'[r].error = "fetchFolder")
        => /\ req'[r].status \in UpstreamErrors
           /\ "images" \notin DOMAIN req'[r].body
           /\ req'[r].ops.fetchFolder = 1
           /\ req'[r].ops.putResources = 0
           /\ req'[r].ops.putReset = 0
           /\ req'[r].ops.putPage = 0
           /\ req'[r].detailCalls = <<>>
           /\ (req[r].pc = "fetch"
               => kvResources' = kvResources /\ kvImages' = kvImages)]_vars

\* The listing call fails while the store holds a snapshot and a page.
C11_Witness ==
    \E r \in Reqs :
        /\ req[r].pc = "done" /\ req[r].error = "fetchFolder"
        /\ req[r].status = 500
        /\ req[r].forceQuery = "true"
        /\ ~kvResources.isNull
        /\ PagesIn(kvImages) # {}

\* C12 as claimed. Merge preserves other pages: the put of a GET / request
\* that computed its page p on a cache miss, and did not invalidate, leaves
\* the page cache's entry of every other page q # p exactly as it was, in
\* every interleaving with other GET / requests that compute other pages.
C12_Original ==
    [][\A r \in Reqs :
        (req[r].pc = "store" /\ req'[r].pc = "done"
         /\ req[r].ops.putReset = 0)
        => \A q \in (PagesIn(kvImages) \cup PagesIn(kvImages')) \ {PageOf(req[r])} :
              /\ q \in PagesIn(kvImages)
              /\ q \in PagesIn(kvImages')
              /\ kvImages'.value[q] = kvImages.value[q]]_vars

\* The request in slot r has put the new snapshot and not yet reset the cache.
BetweenInvalidationPuts(r) ==
    /\ req[r].pc = "invalidate"
    /\ "resources" \in req[r].done
    /\ "images" \notin req[r].done

\* C13. Torn invalidation: a request that stops after the put of the new
\* snapshot and before the reset of the page cache leaves the store with the
\* new snapshot and the page cache as it was, pages of the old listing
\* included; and a later GET / request without force whose listing equals the
\* snapshot, reading a page cache that holds its page, is answered with that
\* entry as it is, without a detail fetch and without a put.
C13_TornInvalidation ==
    [][\A r \in Reqs :
        /\ (BetweenInvalidationPuts(r) /\ req'[r].error = "crash")
           => /\ kvResources' = Json(req[r].currentResources)
              /\ kvImages' = kvImages
        /\ (req[r].pc = "images" /\ req'[r].ops.getImages = 1
            /\ req[r].forceQuery # "true" /\ ~ListingChanged(req[r])
            /\ PageOf(req[r]) \in PagesIn(kvImages))
           => /\ req'[r].pc = "done"
              /\ req'[r].status = 200
              /\ req'[r].body.images = kvImages.value[PageOf(req[r])]
              /\ req'[r].detailCalls = <<>>
              /\ req'[r].ops.putPage = 0
              /\ kvImages' = kvImages]_vars

\* A request without force, whose listing equals the stored snapshot, has
\* been answered from the cache with a page that is not the normalization of
\* the page's slice of that listing: a page of the old listing.
C13_Witness ==
    \E r \in Reqs :
        LET rec == req[r]
            p == PageOf(rec)
        IN  /\ GetAnswered(rec) /\ ~ListingChanged(rec)
            /\ rec.forceQuery = "false"
            /\ rec.detailCalls = <<>>
            /\ kvResources = Json(rec.currentResources)
            /\ rec.body.images # <<>>
            /\ rec.body.images # ExpectedImages(rec.currentResources, p)

\* C14. Sequential detail fetches: the detail fetches a GET / request has
\* issued are the first resources of its page's slice, in listing order; a
\* fetch is issued only when every earlier one has completed with an image,
\* so at most one is outstanding; and once a fetch has failed the request
\* issues no other.
C14_SequentialFetches ==
    [][\A r \in Reqs :
        LET old == req[r]
            new == req'[r]
            items == IF InRange(PageOf(new), Len(new.currentResources))
                     THEN ExpectedItems(new.currentResources, PageOf(new))
                     ELSE <<>>
        IN  /\ Len(new.detailCalls) <= Len(items)
            /\ new.detailCalls = SubSeq(items, 1, Len(new.detailCalls))
            /\ new.pc = "process"
               => Len(new.detailCalls) = Len(new.images) + 1
            /\ (new.detailCalls # old.detailCalls /\ new.pc # "idle")
               => /\ Len(new.detailCalls) = Len(old.detailCalls) + 1
                  /\ Len(new.images) = Len(old.detailCalls)
                  /\ old.error = "" /\ new.error = ""
            /\ (old.error = "fetchResource" /\ new.pc # "idle")
               => new.detailCalls = old.detailCalls]_vars

\* The third detail fetch of a page of more than three resources failed:
\* three were issued, two images were built, none is issued for the rest.
C14_Witness ==
    \E r \in Reqs :
        LET rec == req[r]
        IN  /\ rec.pc = "done" /\ rec.error = "fetchResource"
            /\ Len(rec.images) = 2
            /\ Len(rec.detailCalls) = 3
            /\ InRange(PageOf(rec), Len(rec.currentResources))
            /\ Len(ExpectedItems(rec.currentResources, PageOf(rec))) > 3

\* C15. No writes on a pure hit: a GET / request without force, whose fetched
\* listing equals the stored snapshot and whose page is in the page cache or
\* out of range, makes no put: when it is answered the snapshot and the page
\* cache are what it read.
C15_PureHit ==
    \A r \in Reqs :
        LET rec == req[r]
            p == PageOf(rec)
        IN  (GetAnswered(rec) /\ rec.forceQuery # "true" /\ ~ListingChanged(rec)
             /\ (p \in PagesIn(rec.storedImages)
                 \/ ~InRange(p, Len(rec.currentResources))))
            => /\ rec.ops.putResources = 0
               /\ rec.ops.putReset = 0
               /\ rec.ops.putPage = 0
               /\ kvResources = rec.storedResources
               /\ kvImages = rec.storedImages

\* A hit on page 2 of a cache that holds several pages.
C15_Witness ==
    \E r \in Reqs :
        LET rec == req[r]
        IN  /\ GetAnswered(rec) /\ rec.forceQuery = "false"
            /\ ~ListingChanged(rec)
            /\ PageOf(rec) = 2
            /\ PagesIn(rec.storedImages) = {1, 2}
            /\ rec.ops.putPage = 0
            /\ kvImages = rec.storedImages

\* C16 as claimed. 401 means bad key: a GET / request is answered 401 if and
\* only if its X-API-Key header is missing or is not the secret; no status
\* of the provider makes a request with the right key end with 401.
C16_Original ==
    \A r \in Reqs :
        (req[r].pc = "done" /\ req[r].endpoint = "/" /\ req[r].error # "crash")
        => (req[r].status = 401 <=> req[r].apiKey # API_SECRET_KEY)

\* The resources of the catalogue have pairwise distinct asset ids.
DistinctAssetIds == \A a, b \in Assets : a # b => AssetIdOf(a) # AssetIdOf(b)

\* The ids of a sequence of images.
IdsOf(images) == {images[i].id : i \in 1 .. Len(images)}

\* C17 as claimed. Image ids are unique identifiers: the resources of every
\* listing have pairwise distinct asset ids, and no two images of an answered
\* page, and no two images of the pages the cache holds for the stored
\* snapshot, have the same id.
C17_Original ==
    /\ DistinctAssetIds
    /\ \A r \in Reqs :
          GetAnswered(req[r])
          => Cardinality(IdsOf(req[r].body.images)) = Len(req[r].body.images)
    /\ (Quiet /\ PageCacheMatchesSnapshot)
       => \A p, q \in PagesIn(kvImages) :
             /\ Cardinality(IdsOf(kvImages.value[p])) = Len(kvImages.value[p])
             /\ p # q => IdsOf(kvImages.value[p]) \cap IdsOf(kvImages.value[q]) = {}

\* A caption with every comma and every space replaced by a hyphen.
HyphenateAll(cs) ==
    [i \in 1 .. Len(cs) |-> IF cs[i] = "," \/ cs[i] = " " THEN "-" ELSE cs[i]]

\* The id the derivation rule gives the image of asset a, whose caption
\* (null: <<>>) is caption.
RuleId(a, caption) ==
    LET first4 == Join(SubSeq(AssetIdOf(a), 1, 4))
    IN  IF caption = <<>> THEN "p-" \o first4
        ELSE Join(HyphenateAll(ToLowerCase(Detail(a).image_metadata[1])))
             \o "-" \o first4

\* C18 as claimed. Id derivation: every image a GET / request has built from
\* the detail of a resource has the id p-<first 4 characters of the asset id>
\* exactly when its caption is null, and otherwise the caption lower-cased
\* with every comma and every space replaced by a hyphen, then a hyphen and
\* the first 4 characters of the asset id; building it again gives the same.
C18_Original ==
    \A r \in Reqs :
        \A i \in 1 .. Len(req[r].images) :
            (req[r].pc \in {"process", "store"})
            => LET a == req[r].detailCalls[i]
                   image == req[r].images[i]
               IN  /\ image.id = RuleId(a, image.caption)
                   /\ image.id = NormalizeResource(a, Detail(a)).id

\* The swatches of asset a's detail answer (none when colors is absent).
SwatchesOf(a) == IF Detail(a).colors = <<>> THEN <<>> ELSE Detail(a).colors[1]

\* C19 as claimed. Background and text colour: every image a GET / request
\* has built has as backgroundColor the 4th swatch of the asset's detail
\* (in lower case) when there are at least 4 swatches and "transparent"
\* otherwise, and as color "black" exactly when the light-colour test accepts
\* that backgroundColor and "white" otherwise; so an image with fewer than 4
\* swatches has backgroundColor "transparent" and color "white".
C19_Original ==
    \A r \in Reqs :
        \A i \in 1 .. Len(req[r].images) :
            (req[r].pc \in {"process", "store"})
            => LET a == req[r].detailCalls[i]
                   image == req[r].images[i]
                   fourth == ToLowerCase(Chars(SwatchesOf(a)[4][1]))
               IN  IF Len(SwatchesOf(a)) >= 4
                   THEN /\ image.backgroundColor = Join(fourth)
                        /\ image.color = IF invertColor(fourth) THEN "black"
                                         ELSE "white"
                   ELSE /\ image.backgroundColor = "transparent"
                        /\ image.color = "white"

\* The number of positions of sequence s that hold x.
Count(s, x) == Cardinality({i \in 1 .. Len(s) : s[i] = x})

\* s is a permutation of t: each element as often in s as in t.
IsPermutation(s, t) ==
    /\ Len(s) = Len(t)
    /\ \A i \in 1 .. Len(t) : Count(s, t[i]) = Count(t, t[i])

\* images holds, in the order of listing l, the images of some of l's
\* resources (those whose detail fetch succeeded).
InListingOrder(images, l) ==
    \E kept \in SUBSET (1 .. Len(l)) :
        LET idx == [k \in 1 .. Cardinality(kept) |->
                      CHOOSE i \in kept : Cardinality({j \in kept : j < i}) = k - 1]
        IN  images = [k \in 1 .. Cardinality(kept) |-> ShuffleImageOf[l[idx[k]]]]

====
